---- MODULE Spec2Model ----
(***************************************************************************)
(* Model of the slideshow composition engine of imageToVideo:              *)
(* generate_slideshow (src/video_generator.py) as run by VideoWorker.run   *)
(* (src/gui.py).  Times are exact rationals [n |-> numerator, d |->        *)
(* denominator] in lowest terms, so that schedule equalities are decided   *)
(* exactly.                                                                *)
(***************************************************************************)
EXTENDS Integers, Sequences, FiniteSets, TLC

\* ---------------------------------------------------------------- bounds
MaxImages == 3
MaxDuration == 4
MaxAudio == 5
MaxGlyphs == 1
TimeSamples == 4

\* ------------------------------------------------------ rational numbers
RECURSIVE GCD(_, _)
GCD(a, b) == IF b = 0 THEN a ELSE GCD(b, a % b)

Abs(x) == IF x < 0 THEN -x ELSE x

\* the rational n/d (d # 0) in lowest terms with a positive denominator
Rat(n, d) ==
    LET g == GCD(Abs(n), Abs(d))
        s == IF d < 0 THEN -1 ELSE 1
    IN  [n |-> (s * n) \div g, d |-> (s * d) \div g]

RInt(k) == [n |-> k, d |-> 1]
RAdd(x, y) == Rat(x.n * y.d + y.n * x.d, x.d * y.d)
RSub(x, y) == Rat(x.n * y.d - y.n * x.d, x.d * y.d)
RMulInt(x, k) == Rat(x.n * k, x.d)
RMul(x, y) == Rat(x.n * y.n, x.d * y.d)
RDivInt(x, k) == Rat(x.n, x.d * k)
RLess(x, y) == x.n * y.d < y.n * x.d
RLeq(x, y) == x.n * y.d <= y.n * x.d
RMax(x, y) == IF RLess(x, y) THEN y ELSE x
RMin(x, y) == IF RLess(y, x) THEN y ELSE x

\* int(x): truncation toward zero
Trunc(x) == IF x.n >= 0 THEN x.n \div x.d ELSE -((-x.n) \div x.d)

\* ------------------------------------------------------ program constants
\* transition_duration = 1.0
NominalTransition == 1

\* defaults of generate_slideshow's parameters
DefaultWidth == 1000
DefaultHeight == 1000
DefaultFontSize == 40
DefaultBottomMargin == 50
\* zoom_factor=1.2
DefaultZoom == [n |-> 6, d |-> 5]

valid_transitions ==
    <<"crossfade", "slide_left", "slide_right", "slide_top", "slide_bottom">>

\* the values transition_effect is given in the model: the six documented
\* modes and one string outside them
TransitionModes ==
    {"random", "crossfade", "slide_left", "slide_right", "slide_top",
     "slide_bottom", "wipe"}

SeqRange(s) == {s[k] : k \in 1..Len(s)}

\* ------------------------------------------------------------- the inputs
\* an image path either names a decodable image or one Image.open rejects
ImageKinds == {"ok", "bad"}

ImageLists == UNION {[1..n -> ImageKinds] : n \in 0..MaxImages}

\* audio_path: None, a path with no file, a file AudioFileClip cannot decode,
\* or a decodable file of a given duration (seconds)
AudioInputs ==
    {[kind |-> "none", dur |-> 0], [kind |-> "missing", dur |-> 0],
     [kind |-> "undecodable", dur |-> 0]}
    \cup {[kind |-> "ok", dur |-> a] : a \in 1..MaxAudio}

VARIABLES
    image_paths,          \* the ordered image list
    duration,             \* requested total duration D (seconds)
    transition_effect,    \* requested transition mode
    audio_path,           \* an element of AudioInputs
    text_glyphs,          \* number of glyphs of the caption text
    out_dir_exists,       \* whether the directory of output_path exists
    resolution,           \* <<width, height>> of the output
    font_size,            \* caption font size
    bottom_margin,        \* caption bottom margin
    zoom_factor,          \* a rational
    pc,                   \* position of VideoWorker.run / generate_slideshow
    i,                    \* loop index of the image loop (0-based)
    clip_duration,        \* S
    transition_duration,  \* T after the clamp
    current_start,
    final_clips,          \* base_bg followed by the image clips
    final_video,          \* the composition handed to the encoder
    progress,             \* messages delivered to the progress sink
    encoder_calls,        \* number of write_videofile invocations
    out_file,             \* "absent" | "partial" | "complete"
    error,                \* exception that left generate_slideshow, or "none"
    signals,              \* signals emitted by VideoWorker.run
    handled,              \* progress messages MainWindow.update_status handled
    probe_t,              \* the time a position or scale function is called at
    scroll_pos,           \* what scroll_func returned, <<x, y>>
    zoom_scale,           \* what resize_func returned
    font_path,            \* per render: the explicit font reference
    cwd_fonts,            \* per FONT_URLS entry: its file in the working directory
    platform,             \* platform.system()
    sys_fonts,            \* the platform's system font candidates, in order
    font_pc,              \* per render: position in get_font
    font_k,               \* per render: index of the FONT_URLS loops
    font,                 \* per render: the font get_font returned
    font_writers,         \* per font file: the renders that wrote it
    font_readers,         \* per font file: the renders that loaded it
    orig_size,            \* <<width, height>> of a decoded source image
    new_img,              \* what resize_with_padding did with it
    btn_generate,         \* MainWindow.btn_generate.isEnabled()
    btn_gen_audio,        \* MainWindow.btn_gen_audio.isEnabled()
    generated_audio_path, \* MainWindow.generated_audio_path
    audio_file,           \* the file generated_audio.mp3
    audio_pc,             \* position of AudioWorker.run
    workers,              \* VideoWorkers started, terminal signal not handled
    signals_handled       \* terminal signals the main thread handled

inputs ==
    <<image_paths, duration, transition_effect, audio_path, text_glyphs,
      out_dir_exists, resolution, font_size, bottom_margin, zoom_factor>>

\* what the render itself never writes: the main thread's count of handled
\* messages and the results of the frame-time callbacks
observers == <<handled, probe_t, scroll_pos, zoom_scale>>

\* one call of resize_with_padding
normalizer == <<orig_size, new_img>>

\* the main window and its audio worker
window ==
    <<btn_generate, btn_gen_audio, generated_audio_path, audio_file,
      audio_pc, workers, signals_handled>>

\* the state of font resolution
fonts ==
    <<font_path, cwd_fonts, platform, sys_fonts, font_pc, font_k, font,
      font_writers, font_readers>>

vars ==
    <<image_paths, duration, transition_effect, audio_path, text_glyphs,
      out_dir_exists, resolution, font_size, bottom_margin, zoom_factor,
      pc, i, clip_duration, transition_duration,
      current_start, final_clips, final_video, progress, encoder_calls,
      out_file, error, signals, handled, probe_t, scroll_pos, zoom_scale,
      font_path, cwd_fonts, platform, sys_fonts, font_pc, font_k, font,
      font_writers, font_readers, orig_size, new_img, btn_generate,
      btn_gen_audio, generated_audio_path, audio_file, audio_pc, workers,
      signals_handled>>

num_images == Len(image_paths)

\* ------------------------------------------------- the schedule arithmetic
\* the raw duration with one transition counted per image
RawDurationPerImage(n, d, t) == RAdd(d, RMulInt(t, n))

\* raw_duration_needed: D + (N-1)*T for N > 1, else D
RawDurationNeeded(n, d, t) ==
    IF n > 1 THEN RAdd(d, RMulInt(t, n - 1)) ELSE d

\* clip_duration = raw_duration_needed / num_images
ClipDuration(n, d, t) == RDivInt(RawDurationNeeded(n, d, t), n)

\* the transition duration left unclamped
UnclampedTransition(t, s) == t

\* if transition_duration > clip_duration / 2: transition_duration = clip_duration / 2
ClampTransition(t, s) ==
    IF RLess(RDivInt(s, 2), t) THEN RDivInt(s, 2) ELSE t

\* a start with no overlap
StartAtPreviousEnd(cur, t) == cur

\* start_time = current_start - transition_duration
StartTime(cur, t) == RSub(cur, t)

\* a resolution that ignores the requested mode
TransTypeAlwaysRandom(mode, choice) == choice

\* the transition type of a seam; choice is what random.choice returns
TransType(mode, choice) ==
    IF mode = "random" THEN choice
    ELSE IF mode \in SeqRange(valid_transitions) THEN mode
    ELSE "random"

\* slides that enter from the side they are named after
EntranceEffectSameSide(trans_type) ==
    CASE trans_type = "crossfade" -> "CrossFadeIn"
      [] trans_type = "slide_left" -> "SlideIn_left"
      [] trans_type = "slide_right" -> "SlideIn_right"
      [] trans_type = "slide_top" -> "SlideIn_top"
      [] trans_type = "slide_bottom" -> "SlideIn_bottom"
      [] OTHER -> "none"

\* the entrance effect put on the incoming clip for a transition type
EntranceEffect(trans_type) ==
    CASE trans_type = "crossfade" -> "CrossFadeIn"
      [] trans_type = "slide_left" -> "SlideIn_right"
      [] trans_type = "slide_right" -> "SlideIn_left"
      [] trans_type = "slide_top" -> "SlideIn_bottom"
      [] trans_type = "slide_bottom" -> "SlideIn_top"
      [] OTHER -> "none"

\* ---------------------------------------------------------------- clips
\* ColorClip(size, color).with_duration(duration)
BaseBg(d) ==
    [kind |-> "color", index |-> 0, start |-> RInt(0), duration |-> d,
     zoom |-> FALSE, zoom_ratio |-> RInt(0), trans_type |-> "none",
     effect |-> "none", effect_dur |-> RInt(0)]

\* the ratio without the clamp at 0
ZoomRatioUnclamped(zf) == RSub(zf, RInt(1))

\* zoom_ratio = max(0.0, zoom_factor - 1.0)
ZoomRatio(zf) == RMax(RInt(0), RSub(zf, RInt(1)))

\* the clip of image number index (0-based):
\* ImageClip(img_array).with_duration(clip_duration) with the zoom effect,
\* its start, and the entrance effect of its transition type
ImageSegment(index, start, s, zr, trans_type, effect, t) ==
    [kind |-> "image", index |-> index, start |-> start, duration |-> s,
     zoom |-> TRUE, zoom_ratio |-> zr, trans_type |-> trans_type,
     effect |-> effect,
     effect_dur |-> IF effect = "none" THEN RInt(0) ELSE t]

ClipEnd(c) == RAdd(c.start, c.duration)

\* CompositeVideoClip's own duration: the latest end of its clips
RECURSIVE MaxEnd(_)
MaxEnd(clips) ==
    IF Len(clips) = 0 THEN RInt(0)
    ELSE RMax(ClipEnd(Head(clips)), MaxEnd(Tail(clips)))

NoAudio == [present |-> FALSE, dur |-> RInt(0)]

NoVideo ==
    [built |-> FALSE, duration |-> RInt(0), caption |-> FALSE,
     text_raised |-> FALSE, layers |-> <<>>, audio |-> NoAudio]

\* create_text_image reports width 0 for a text without glyphs
HasCaption(glyphs) == glyphs > 0

\* a layer of the outer composite: starts at 0 and lasts d
Layer(d) ==
    [kind |-> "layer", index |-> 0, start |-> RInt(0), duration |-> d,
     zoom |-> FALSE, zoom_ratio |-> RInt(0), trans_type |-> "none",
     effect |-> "none", effect_dur |-> RInt(0)]

\* final_video.duration: background_video is CompositeVideoClip(final_clips)
\* cut to duration by with_duration; with a caption, final_video is the
\* composite of background_video and text_clip (with_duration(duration))
FinalDuration(d, glyphs) ==
    IF HasCaption(glyphs) THEN MaxEnd(<<Layer(d), Layer(d)>>) ELSE d

\* ---------------------------------------------------------------- caption
\* shadow_offset = 3
ShadowOffset == 3

\* bbox[2] - bbox[0] of the text: the glyphs are full-width, one em each
BBoxWidth(glyphs, size) == glyphs * size

\* image_height = int(font_size * 1.5)
ImageHeight(size) == (size * 3) \div 2

\* create_text_image: (None, 0, 0) for a text of width 0, (None, 0) when
\* measuring or drawing raises, else (img, text_width, image_height) with an
\* image text_width + shadow_offset wide
create_text_image(glyphs, size, raises) ==
    LET text_width == BBoxWidth(glyphs, size)
    IN  IF raises \/ text_width = 0
        THEN [img |-> FALSE, img_width |-> 0, text_width |-> 0,
              image_height |-> 0]
        ELSE [img |-> TRUE, img_width |-> text_width + ShadowOffset,
              text_width |-> text_width, image_height |-> ImageHeight(size)]

\* a test of the tuple alone, which is never empty
TextResultTruthy(text_result) == TRUE

\* if text_result and text_result[0] is not None
TextResultUsable(text_result) == text_result.img

\* ImageClip(text_img_array).with_duration(duration)
TextClip(d) == [Layer(d) EXCEPT !.kind = "text"]

\* the caption put below the timeline
CaptionBelow(background, text_clip) == <<text_clip>> \o background

\* CompositeVideoClip([background_video, text_clip]): the clips of the
\* background composite, the caption above them
OuterLayers(background, text_clip) == Append(background, text_clip)

\* ---------------------------------------------------------- image loading
\* a loader that swallows the decoding error
NormalizeNeverRaises(img) == FALSE

\* Image.open / convert raise for a file that is no decodable image
NormalizeRaises(img) == img = "bad"

\* ------------------------------------------------------------------ audio
\* if audio_path and os.path.exists(audio_path)
AudioExists(a) == a.kind \in {"undecodable", "ok"}

\* exceptions AudioFileClip raises on a file it cannot decode
AudioDecodeErrors == {"OSError", "KeyError"}

\* a handler for one exception class only
CatchesValueErrorOnly(e) == e = "ValueError"

\* except Exception as e
AudioExceptCatches(e) == e \in {"OSError", "KeyError", "ValueError"}

\* the track attached as decoded
UntruncatedAudio(a, v) == a

\* if audio_clip.duration > final_video.duration: with_duration(final_video.duration)
ReconciledAudio(a, v) == IF RLess(v, a) THEN v ELSE a

\* ---------------------------------------------------------------- encoder
\* outcomes of write_videofile(output_path): the file is written completely,
\* ffmpeg cannot open the output (no file), or ffmpeg fails while writing
EncoderOutcomes(dir_exists) ==
    IF dir_exists THEN {"ok", "fail_open", "fail_midway"} ELSE {"fail_open"}

FileAfter(outcome, before) ==
    CASE outcome = "ok" -> "complete"
      [] outcome = "fail_midway" -> "partial"
      [] OTHER -> before

\* ----------------------------------------------------------- main window
\* the window while the one VideoWorker it started runs and no narration is
\* being generated
WindowRendering ==
    /\ btn_generate = FALSE
    /\ btn_gen_audio = TRUE
    /\ generated_audio_path = "none"
    /\ audio_file = "absent"
    /\ audio_pc = "idle"
    /\ workers = 1
    /\ signals_handled = 0

\* a handler that leaves the button as it is
ButtonLeftEnabled(enabled, started) == enabled

\* btn_generate after generate_video: setEnabled(False) once images, text and
\* an output path are there, untouched on the early returns
ButtonAfterClick(enabled, started) == IF started THEN FALSE ELSE enabled

\* the audio_path generate_video passes on: generated_audio_path if it is set
\* and the file exists, else None; a file still being written may or may not
\* decode when the render opens it
PassedAudio(path, file) ==
    IF path = "none" \/ file = "absent"
    THEN {[kind |-> "none", dur |-> 0]}
    ELSE IF file = "complete" THEN {[kind |-> "ok", dur |-> 1]}
    ELSE {[kind |-> "ok", dur |-> 1], [kind |-> "undecodable", dur |-> 0]}

\* the render has opened its audio file and the encoder has not yet ended
RenderUsesAudio == pc \in {"write", "encode"} /\ final_video.audio.present

\* MainWindow.generate_video, the slot of btn_generate.clicked: a disabled
\* button emits no click; without images, text or an output path the handler
\* returns, else it disables the button and starts a new VideoWorker
generate_video ==
    /\ btn_generate
    /\ \E started \in BOOLEAN :
         /\ btn_generate' = ButtonAfterClick(btn_generate, started)
         /\ IF started
            THEN /\ audio_path' \in
                      PassedAudio(generated_audio_path, audio_file)
                 /\ workers' = workers + 1
                 /\ signals_handled' = 0
                 /\ pc' = "run"
                 /\ i' = 0
                 /\ clip_duration' = RInt(0)
                 /\ transition_duration' = RInt(0)
                 /\ current_start' = RInt(0)
                 /\ final_clips' = <<>>
                 /\ final_video' = NoVideo
                 /\ progress' = <<>>
                 /\ encoder_calls' = 0
                 /\ out_file' = "absent"
                 /\ error' = "none"
                 /\ signals' = <<>>
                 /\ handled' = 0
            ELSE UNCHANGED <<audio_path, workers, signals_handled, pc, i,
                             clip_duration, transition_duration,
                             current_start, final_clips, final_video,
                             progress, encoder_calls, out_file, error,
                             signals, handled>>
    /\ UNCHANGED <<image_paths, duration, transition_effect, text_glyphs,
                   out_dir_exists, resolution, font_size, bottom_margin,
                   zoom_factor, normalizer, fonts, probe_t, scroll_pos,
                   zoom_scale, btn_gen_audio, generated_audio_path,
                   audio_file, audio_pc>>

\* a terminal signal of the worker is next in the main thread's queue: every
\* progress message was queued before it
TerminalPending(name) ==
    /\ signals_handled < Len(signals)
    /\ signals[signals_handled + 1] = name
    /\ handled = Len(progress)

\* MainWindow.on_finished
on_finished ==
    /\ TerminalPending("finished")
    /\ btn_generate' = TRUE
    /\ workers' = workers - 1
    /\ signals_handled' = signals_handled + 1
    /\ UNCHANGED <<inputs, normalizer, observers, fonts, btn_gen_audio,
                   generated_audio_path, audio_file, audio_pc, pc, i,
                   clip_duration, transition_duration, current_start,
                   final_clips, final_video, progress, encoder_calls,
                   out_file, error, signals>>

\* MainWindow.on_error
on_error ==
    /\ TerminalPending("error_occurred")
    /\ btn_generate' = TRUE
    /\ workers' = workers - 1
    /\ signals_handled' = signals_handled + 1
    /\ UNCHANGED <<inputs, normalizer, observers, fonts, btn_gen_audio,
                   generated_audio_path, audio_file, audio_pc, pc, i,
                   clip_duration, transition_duration, current_start,
                   final_clips, final_video, progress, encoder_calls,
                   out_file, error, signals>>

\* what the audio actions leave alone
render ==
    <<pc, i, clip_duration, transition_duration, current_start, final_clips,
      final_video, progress, encoder_calls, out_file, error, signals>>

\* MainWindow.generate_audio, the slot of btn_gen_audio.clicked: without an
\* API key or a text it returns, else it disables the button and starts an
\* AudioWorker that writes generated_audio.mp3
generate_audio ==
    /\ btn_gen_audio
    /\ \E started \in BOOLEAN :
         IF started
         THEN /\ btn_gen_audio' = FALSE
              /\ audio_pc' = "request"
         ELSE UNCHANGED <<btn_gen_audio, audio_pc>>
    /\ UNCHANGED <<inputs, normalizer, observers, fonts, render, btn_generate,
                   generated_audio_path, audio_file, workers,
                   signals_handled>>

\* MinimaxClient.generate_speech up to open(output_file, 'wb'): the request
\* fails, or the file is opened for writing, which empties it
AudioRequest ==
    /\ audio_pc = "request"
    /\ \E answered \in BOOLEAN :
         IF answered
         THEN /\ audio_file' = "partial"
              /\ audio_pc' = "writing"
         ELSE /\ audio_pc' = "error_emitted"
              /\ UNCHANGED audio_file
    /\ UNCHANGED <<inputs, normalizer, observers, fonts, render, btn_generate,
                   btn_gen_audio, generated_audio_path, workers,
                   signals_handled>>

\* f.write(audio_bytes) and the end of AudioWorker.run: finished is emitted
\* when the file was written, error_occurred when the write raised
AudioWrite ==
    /\ audio_pc = "writing"
    /\ \E written \in BOOLEAN :
         IF written
         THEN /\ audio_file' = "complete"
              /\ audio_pc' = "finished_emitted"
         ELSE /\ audio_pc' = "error_emitted"
              /\ UNCHANGED audio_file
    /\ UNCHANGED <<inputs, normalizer, observers, fonts, render, btn_generate,
                   btn_gen_audio, generated_audio_path, workers,
                   signals_handled>>

\* MainWindow.on_audio_finished
on_audio_finished ==
    /\ audio_pc = "finished_emitted"
    /\ generated_audio_path' = "generated_audio.mp3"
    /\ btn_gen_audio' = TRUE
    /\ audio_pc' = "idle"
    /\ UNCHANGED <<inputs, normalizer, observers, fonts, render, btn_generate,
                   audio_file, workers, signals_handled>>

\* MainWindow.on_audio_error
on_audio_error ==
    /\ audio_pc = "error_emitted"
    /\ btn_gen_audio' = TRUE
    /\ audio_pc' = "idle"
    /\ UNCHANGED <<inputs, normalizer, observers, fonts, render, btn_generate,
                   generated_audio_path, audio_file, workers,
                   signals_handled>>

\* ------------------------------------------------------ image normalizer
\* no call of resize_with_padding has ended
NoBuffer ==
    [raised |-> FALSE, size |-> <<0, 0>>, new_w |-> 0, new_h |-> 0,
     paste_x |-> 0, paste_y |-> 0]

NormalizerIdle ==
    /\ orig_size = <<1, 1>>
    /\ new_img = NoBuffer

\* Image.resize((new_w, new_h)) raises ValueError unless both are at least 1
ResizeRaises(w, h) == w < 1 \/ h < 1

\* resize_with_padding on a decoded image of size orig: the scaled size, the
\* paste offsets and the size of the buffer it returns
resize_with_padding(orig, target_size) ==
    LET target_w == target_size[1]
        target_h == target_size[2]
        orig_w == orig[1]
        orig_h == orig[2]
        ratio == RMin(Rat(target_w, orig_w), Rat(target_h, orig_h))
        w == Trunc(RMulInt(ratio, orig_w))
        h == Trunc(RMulInt(ratio, orig_h))
    IN  IF ResizeRaises(w, h)
        THEN [NoBuffer EXCEPT !.raised = TRUE, !.new_w = w, !.new_h = h]
        ELSE [raised |-> FALSE, size |-> target_size, new_w |-> w,
              new_h |-> h, paste_x |-> (target_w - w) \div 2,
              paste_y |-> (target_h - h) \div 2]

\* one call of resize_with_padding on a decodable image
Normalize ==
    /\ pc = "open"
    /\ new_img' = resize_with_padding(orig_size, resolution)
    /\ pc' = IF new_img'.raised THEN "resize_raised" ELSE "normalized"
    /\ UNCHANGED <<inputs, window, observers, fonts, orig_size, i,
                   clip_duration, transition_duration, current_start,
                   final_clips, final_video, progress, encoder_calls,
                   out_file, error, signals>>

\* ------------------------------------------------- frame-time callbacks
\* the times the callbacks are called at: TimeSamples steps over [0, d], and
\* over [0, 1] for a span of 0
FrameTimes(d) ==
    {RDivInt(RMulInt(IF d = RInt(0) THEN RInt(1) ELSE d, k), TimeSamples) :
        k \in 0..TimeSamples}

\* an interpolation over t instead of t / duration
scroll_func_unscaled(t, d, start_x, end_x, height, image_height, margin) ==
    IF d = 0 THEN <<0, 0>>
    ELSE <<Trunc(RAdd(RInt(start_x), RMulInt(t, end_x - start_x))),
           height - image_height - margin>>

\* scroll_func(t) of generate_slideshow, with the values it closes over
scroll_func(t, d, start_x, end_x, height, image_height, margin) ==
    IF d = 0 THEN <<0, 0>>
    ELSE LET x == RAdd(RInt(start_x),
                       RMulInt(RDivInt(t, d), end_x - start_x))
             y == height - image_height - margin
         IN  <<Trunc(x), y>>

\* resize_func(t) of apply_zoom_effect: 1 + zoom_ratio * (t / clip.duration)
resize_func(t, zoom_ratio, clip_dur) ==
    RAdd(RInt(1), RMul(zoom_ratio, RMul(t, [n |-> clip_dur.d, d |-> clip_dur.n])))

\* the compositor asks the caption for its position at a frame time
EvalScroll ==
    /\ pc \in {"caption", "positioned"}
    /\ LET text_result == create_text_image(text_glyphs, font_size, FALSE)
       IN  \E t \in FrameTimes(RInt(duration)) :
             /\ probe_t' = t
             /\ scroll_pos' = scroll_func(t, duration, resolution[1],
                                          -text_result.text_width,
                                          resolution[2],
                                          text_result.image_height,
                                          bottom_margin)
    /\ pc' = "positioned"
    /\ UNCHANGED <<inputs, normalizer, window,
                   fonts, handled, zoom_scale, i, clip_duration,
                   transition_duration, current_start, final_clips,
                   final_video, progress, encoder_calls, out_file, error,
                   signals>>

\* the compositor asks a segment for its scale at a time of the segment
EvalZoom ==
    /\ pc \in {"segment", "zoomed"}
    /\ \E t \in FrameTimes(clip_duration) :
         /\ probe_t' = t
         /\ zoom_scale' = resize_func(t, ZoomRatio(zoom_factor), clip_duration)
    /\ pc' = "zoomed"
    /\ UNCHANGED <<inputs, normalizer, window,
                   fonts, handled, scroll_pos, i, clip_duration,
                   transition_duration, current_start, final_clips,
                   final_video, progress, encoder_calls, out_file, error,
                   signals>>

\* -------------------------------------------------------- font resolution
\* the renders that run concurrently in the process
Renders == {1, 2}

\* the file names of FONT_URLS, relative to the working directory
FONT_URLS == <<"NotoSansSC-Regular.ttf", "MaShanZheng-Regular.ttf">>

\* font_path: None, a path with no file, a file truetype rejects, a font file
FontRefs == {"none", "missing", "unloadable", "ok"}

\* a file is absent, being written, written completely, or no loadable font
FileStates == {"absent", "partial", "complete", "corrupt"}

SysFontStates == {"absent", "unloadable", "ok"}

Platforms == {"Linux", "Windows", "Darwin", "Other"}

\* ImageFont.truetype on a file: only a complete font file loads
Loads(state) == state = "complete"

\* Linux: the first path that exists is loaded, and a failure propagates
RECURSIVE LinuxFont(_)
LinuxFont(sys) ==
    IF Len(sys) = 0 THEN "none"
    ELSE IF Head(sys) = "absent" THEN LinuxFont(Tail(sys))
    ELSE IF Head(sys) = "ok" THEN "system" ELSE "raise"

\* Windows, Darwin: nested try/except, the last candidate's failure propagates
RECURSIVE ChainFont(_)
ChainFont(sys) ==
    IF Len(sys) = 0 THEN "raise"
    ELSE IF Head(sys) = "ok" THEN "system" ELSE ChainFont(Tail(sys))

\* step 3 of get_font
SystemFont(system, sys) ==
    CASE system = "Linux" -> LinuxFont(sys)
      [] system \in {"Windows", "Darwin"} -> ChainFont(sys)
      [] OTHER -> "none"

\* no font resolution is running
FontsIdle ==
    /\ font_path = [r \in Renders |-> "none"]
    /\ cwd_fonts = [k \in 1..Len(FONT_URLS) |-> "absent"]
    /\ platform = "Linux"
    /\ sys_fonts = <<>>
    /\ font_pc = [r \in Renders |-> "idle"]
    /\ font_k = [r \in Renders |-> 1]
    /\ font = [r \in Renders |-> "none"]
    /\ font_writers = [k \in 1..Len(FONT_URLS) |-> {}]
    /\ font_readers = [k \in 1..Len(FONT_URLS) |-> {}]

FontReturn(r, f) ==
    /\ font' = [font EXCEPT ![r] = f]
    /\ font_pc' = [font_pc EXCEPT ![r] = "done"]

\* what ImageFont.truetype raises on a file that is no loadable font
FontLoadErrors == {"OSError"}

\* a handler for one exception class only
GetFontCatchesValueErrorOnly(e) == e = "ValueError"

\* the outer handler of get_font: except Exception as e
GetFontCatches(e) == e \in {"OSError", "ValueError"}

\* an exception raised outside the inner handlers: the outer handler prints it
\* and get_font returns ImageFont.load_default(), else it leaves get_font
FontFails(r, e) ==
    IF GetFontCatches(e)
    THEN FontReturn(r, "default")
    ELSE /\ font_pc' = [font_pc EXCEPT ![r] = "raised"]
         /\ UNCHANGED font

\* the explicit reference: used if it exists and loads, else passed over
FontExplicit(r) ==
    /\ font_pc[r] = "explicit"
    /\ IF font_path[r] = "ok"
       THEN FontReturn(r, "explicit") /\ UNCHANGED font_k
       ELSE /\ font_pc' = [font_pc EXCEPT ![r] = "local"]
            /\ font_k' = [font_k EXCEPT ![r] = 1]
            /\ UNCHANGED font
    /\ UNCHANGED <<inputs, normalizer, window,
                   observers, font_path, cwd_fonts, platform,
                   sys_fonts, font_writers, font_readers, pc, i,
                   clip_duration, transition_duration, current_start,
                   final_clips, final_video, progress, encoder_calls,
                   out_file, error, signals>>

\* loop 1: the first FONT_URLS file that exists is loaded; a failure to load
\* it reaches the outer except, which falls back to the default font
FontLocal(r) ==
    /\ font_pc[r] = "local"
    /\ LET k == font_k[r]
       IN  IF k > Len(FONT_URLS)
           THEN /\ font_pc' = [font_pc EXCEPT ![r] = "download"]
                /\ font_k' = [font_k EXCEPT ![r] = 1]
                /\ UNCHANGED <<font, font_readers>>
           ELSE IF cwd_fonts[k] = "absent"
           THEN /\ font_k' = [font_k EXCEPT ![r] = k + 1]
                /\ UNCHANGED <<font, font_pc, font_readers>>
           ELSE /\ font_readers' =
                     [font_readers EXCEPT ![k] = @ \cup {r}]
                /\ IF Loads(cwd_fonts[k])
                   THEN FontReturn(r, FONT_URLS[k])
                   ELSE \E e \in FontLoadErrors : FontFails(r, e)
                /\ UNCHANGED font_k
    /\ UNCHANGED <<inputs, normalizer, window,
                   observers, font_path, cwd_fonts, platform,
                   sys_fonts, font_writers, pc, i,
                   clip_duration, transition_duration, current_start,
                   final_clips, final_video, progress, encoder_calls,
                   out_file, error, signals>>

\* loop 2: urlretrieve either fails before it writes or starts to write the
\* file; after the last URL the system fonts are tried
FontDownloadBegin(r) ==
    /\ font_pc[r] = "download"
    /\ LET k == font_k[r]
       IN  IF k > Len(FONT_URLS)
           THEN /\ font_pc' = [font_pc EXCEPT ![r] = "system"]
                /\ UNCHANGED <<font_k, cwd_fonts, font_writers>>
           ELSE \E connected \in BOOLEAN :
                  IF connected
                  THEN /\ cwd_fonts' = [cwd_fonts EXCEPT ![k] = "partial"]
                       /\ font_writers' =
                            [font_writers EXCEPT ![k] = @ \cup {r}]
                       /\ font_pc' = [font_pc EXCEPT ![r] = "downloading"]
                       /\ UNCHANGED font_k
                  ELSE /\ font_k' = [font_k EXCEPT ![r] = k + 1]
                       /\ UNCHANGED <<font_pc, cwd_fonts, font_writers>>
    /\ UNCHANGED <<inputs, normalizer, window,
                   observers, font_path, platform, sys_fonts, font,
                   font_readers, pc, i,
                   clip_duration, transition_duration, current_start,
                   final_clips, final_video, progress, encoder_calls,
                   out_file, error, signals>>

\* loop 2: urlretrieve ends; when it returned and the file exists the file is
\* loaded, and a failure of either goes on to the next URL
FontDownloadEnd(r) ==
    /\ font_pc[r] = "downloading"
    /\ LET k == font_k[r]
           shared == \E q \in Renders \ {r} :
                        font_pc[q] = "downloading" /\ font_k[q] = k
       IN  \E complete \in BOOLEAN, intact \in BOOLEAN :
             LET state == IF ~complete THEN "partial"
                          ELSE IF shared /\ ~intact THEN "corrupt"
                          ELSE "complete"
             IN  /\ cwd_fonts' = [cwd_fonts EXCEPT ![k] = state]
                 /\ IF complete /\ Loads(state)
                    THEN /\ FontReturn(r, FONT_URLS[k])
                         /\ UNCHANGED font_k
                    ELSE /\ font_k' = [font_k EXCEPT ![r] = k + 1]
                         /\ font_pc' = [font_pc EXCEPT ![r] = "download"]
                         /\ UNCHANGED font
                 /\ font_readers' =
                      IF complete
                      THEN [font_readers EXCEPT ![k] = @ \cup {r}]
                      ELSE font_readers
    /\ UNCHANGED <<inputs, normalizer, window,
                   observers, font_path, platform, sys_fonts,
                   font_writers, pc, i,
                   clip_duration, transition_duration, current_start,
                   final_clips, final_video, progress, encoder_calls,
                   out_file, error, signals>>

\* step 3 and the fallback: a system font, else ImageFont.load_default()
FontSystem(r) ==
    /\ font_pc[r] = "system"
    /\ LET found == SystemFont(platform, sys_fonts)
       IN  IF found = "raise"
           THEN \E e \in FontLoadErrors : FontFails(r, e)
           ELSE FontReturn(r, IF found = "system" THEN "system"
                              ELSE "default")
    /\ UNCHANGED <<inputs, normalizer, window,
                   observers, font_path, cwd_fonts, platform,
                   sys_fonts, font_k, font_writers, font_readers, pc, i,
                   clip_duration, transition_duration, current_start,
                   final_clips, final_video, progress, encoder_calls,
                   out_file, error, signals>>

\* ---------------------------------------------------------- progress sink
\* a sink whose call returns only when the slot has handled the message
SinkReturnedWhenHandled(pending) == pending = 0

\* progress_callback is progress_update.emit: the signal is emitted in the
\* worker thread and its slot lives in the main thread, so the message is
\* queued for the main thread and the call returns with messages pending
SinkReturned(pending) == TRUE

\* the render is past its last log call
LogReturned == SinkReturned(Len(progress) - handled)

\* ------------------------------------------------------------------ Init
\* the locals of a generate_slideshow call that has not begun
RenderFresh ==
    /\ i = 0
    /\ clip_duration = RInt(0)
    /\ transition_duration = RInt(0)
    /\ current_start = RInt(0)
    /\ final_clips = <<>>
    /\ final_video = NoVideo
    /\ progress = <<>>
    /\ encoder_calls = 0
    /\ out_file = "absent"
    /\ error = "none"
    /\ signals = <<>>
    /\ handled = 0
    /\ probe_t = RInt(0)
    /\ scroll_pos = <<0, 0>>
    /\ zoom_scale = RInt(1)

\* a VideoWorker that was started and has not yet called generate_slideshow
RenderStart ==
    /\ pc = "run"
    /\ RenderFresh

Init ==
    /\ WindowRendering
    /\ NormalizerIdle
    /\ image_paths \in ImageLists
    /\ duration \in 1..MaxDuration
    /\ transition_effect \in TransitionModes
    /\ audio_path \in AudioInputs
    /\ text_glyphs \in 0..MaxGlyphs
    /\ out_dir_exists \in BOOLEAN
    /\ resolution = <<DefaultWidth, DefaultHeight>>
    /\ font_size = DefaultFontSize
    /\ bottom_margin = DefaultBottomMargin
    /\ zoom_factor = DefaultZoom
    /\ RenderStart
    /\ FontsIdle

\* --------------------------------------------------------------- actions
\* generate_slideshow called with an empty list: log and return
ReturnNoImages ==
    /\ pc = "run"
    /\ LogReturned
    /\ num_images = 0
    /\ progress' = Append(progress, "No images provided.")
    /\ pc' = "returned"
    /\ UNCHANGED <<inputs, normalizer, window,
                   observers, fonts, i, clip_duration, transition_duration,
                   current_start, final_clips, final_video, encoder_calls,
                   out_file, error, signals>>

\* generate_slideshow up to the image loop: the schedule, the first progress
\* message, the background clip
Prepare ==
    /\ pc = "run"
    /\ LogReturned
    /\ num_images > 0
    /\ \E s \in {ClipDuration(num_images, RInt(duration),
                              RInt(NominalTransition))} :
         /\ clip_duration' = s
         /\ transition_duration' = ClampTransition(RInt(NominalTransition), s)
    /\ progress' = Append(progress, "Processing")
    /\ final_clips' = <<BaseBg(RInt(duration))>>
    /\ current_start' = RInt(0)
    /\ i' = 0
    /\ pc' = "loop"
    /\ UNCHANGED <<inputs, normalizer, window,
                   observers, fonts, final_video, encoder_calls, out_file, error,
                   signals>>

\* one iteration of the image loop whose resize_with_padding raises
NormalizeFails ==
    /\ pc = "loop"
    /\ LogReturned
    /\ i < num_images
    /\ NormalizeRaises(image_paths[i + 1])
    /\ error' = "DecodeError"
    /\ pc' = "raised"
    /\ UNCHANGED <<inputs, normalizer, window,
                   observers, fonts, i, clip_duration, transition_duration,
                   current_start, final_clips, final_video, progress,
                   encoder_calls, out_file, signals>>

\* one iteration of the image loop
ProcessImage ==
    /\ pc = "loop"
    /\ LogReturned
    /\ i < num_images
    /\ ~NormalizeRaises(image_paths[i + 1])
    /\ IF i = 0
       THEN /\ final_clips' = Append(final_clips,
                   ImageSegment(i, RInt(0), clip_duration,
                                ZoomRatio(zoom_factor), "none", "none",
                                transition_duration))
            /\ current_start' = RAdd(current_start, clip_duration)
       ELSE \E choice \in SeqRange(valid_transitions) :
              LET start_time == StartTime(current_start, transition_duration)
                  trans_type == TransType(transition_effect, choice)
              IN  /\ final_clips' = Append(final_clips,
                         ImageSegment(i, start_time, clip_duration,
                                      ZoomRatio(zoom_factor), trans_type,
                                      EntranceEffect(trans_type),
                                      transition_duration))
                  /\ current_start' = RAdd(start_time, clip_duration)
    /\ i' = i + 1
    /\ UNCHANGED <<inputs, normalizer, window,
                   observers, fonts, pc, clip_duration, transition_duration,
                   final_video, progress, encoder_calls, out_file, error,
                   signals>>

\* after the loop: the composite of the clips and the scrolling caption
Compose ==
    /\ pc = "loop"
    /\ LogReturned
    /\ i = num_images
    /\ \E raises \in BOOLEAN :
         LET text_result == create_text_image(text_glyphs, font_size, raises)
             caption == TextResultUsable(text_result)
         IN  final_video' =
               [built |-> TRUE,
                duration |-> FinalDuration(RInt(duration),
                                           IF caption THEN text_glyphs ELSE 0),
                caption |-> caption,
                text_raised |-> raises,
                layers |-> IF caption
                           THEN OuterLayers(final_clips,
                                            TextClip(RInt(duration)))
                           ELSE final_clips,
                audio |-> NoAudio]
    /\ pc' = "audio"
    /\ UNCHANGED <<inputs, normalizer, window,
                   observers, fonts, i, clip_duration, transition_duration,
                   current_start, final_clips, progress, encoder_calls,
                   out_file, error, signals>>

\* step 3 with no audio_path or no file at it: nothing is attached
SkipAudio ==
    /\ pc = "audio"
    /\ LogReturned
    /\ ~AudioExists(audio_path)
    /\ pc' = "write"
    /\ UNCHANGED <<inputs, normalizer, window,
                   observers, fonts, i, clip_duration, transition_duration,
                   current_start, final_clips, final_video, progress,
                   encoder_calls, out_file, error, signals>>

\* step 3 with a decodable file: the reconciled track is attached
AttachAudio ==
    /\ pc = "audio"
    /\ LogReturned
    /\ AudioExists(audio_path)
    /\ audio_path.kind = "ok"
    /\ progress' = Append(progress, "Adding audio")
    /\ final_video' = [final_video EXCEPT !.audio =
           [present |-> TRUE,
            dur |-> ReconciledAudio(RInt(audio_path.dur),
                                    final_video.duration)]]
    /\ pc' = "write"
    /\ UNCHANGED <<inputs, normalizer, window,
                   observers, fonts, i, clip_duration, transition_duration,
                   current_start, final_clips, encoder_calls, out_file,
                   error, signals>>

\* step 3 with a file AudioFileClip cannot decode
AudioDecodeFails ==
    /\ pc = "audio"
    /\ LogReturned
    /\ AudioExists(audio_path)
    /\ audio_path.kind = "undecodable"
    /\ \E e \in AudioDecodeErrors :
         IF AudioExceptCatches(e)
         THEN /\ progress' = progress \o <<"Adding audio", "Error adding audio">>
              /\ pc' = "write"
              /\ error' = error
         ELSE /\ progress' = Append(progress, "Adding audio")
              /\ pc' = "raised"
              /\ error' = e
    /\ UNCHANGED <<inputs, normalizer, window,
                   observers, fonts, i, clip_duration, transition_duration,
                   current_start, final_clips, final_video, encoder_calls,
                   out_file, signals>>

\* step 4: the message that announces the encoding
AnnounceWrite ==
    /\ pc = "write"
    /\ LogReturned
    /\ progress' = Append(progress, "Writing video")
    /\ pc' = "encode"
    /\ UNCHANGED <<inputs, normalizer, window,
                   observers, fonts, i, clip_duration, transition_duration,
                   current_start, final_clips, final_video, encoder_calls,
                   out_file, error, signals>>

\* the last message logged whatever the encoder did
DoneAlwaysLogged(outcome) == TRUE

\* log("Done.") follows write_videofile, which returns only when it succeeded
DoneLogged(outcome) == outcome = "ok"

\* step 4: write_videofile and, when it returns, the last message
WriteVideo ==
    /\ pc = "encode"
    /\ LogReturned
    /\ encoder_calls' = encoder_calls + 1
    /\ \E outcome \in EncoderOutcomes(out_dir_exists) :
         /\ out_file' = FileAfter(outcome, out_file)
         /\ progress' = IF DoneLogged(outcome) THEN Append(progress, "Done.")
                        ELSE progress
         /\ IF outcome = "ok"
            THEN /\ pc' = "returned"
                 /\ error' = error
            ELSE /\ pc' = "raised"
                 /\ error' = "EncodeError"
    /\ UNCHANGED <<inputs, normalizer, window,
                   observers, fonts, i, clip_duration, transition_duration,
                   current_start, final_clips, final_video, signals>>

\* a run that emits finished on every path
RunSignalsFinishedAlways(outcome) ==
    IF outcome = "raised" THEN <<"error_occurred", "finished">>
    ELSE <<"finished">>

\* what VideoWorker.run emits once generate_slideshow has returned or raised:
\* finished at the end of the try block, error_occurred in the except clause
RunSignals(outcome) ==
    IF outcome = "raised" THEN <<"error_occurred">> ELSE <<"finished">>

\* VideoWorker.run after generate_slideshow returned
EmitFinished ==
    /\ pc = "returned"
    /\ LogReturned
    /\ signals' = signals \o RunSignals(pc)
    /\ pc' = "stopped"
    /\ UNCHANGED <<inputs, normalizer, window,
                   observers, fonts, i, clip_duration, transition_duration,
                   current_start, final_clips, final_video, progress,
                   encoder_calls, out_file, error>>

\* VideoWorker.run's except clause
EmitError ==
    /\ pc = "raised"
    /\ LogReturned
    /\ signals' = signals \o RunSignals(pc)
    /\ pc' = "stopped"
    /\ UNCHANGED <<inputs, normalizer, window,
                   observers, fonts, i, clip_duration, transition_duration,
                   current_start, final_clips, final_video, progress,
                   encoder_calls, out_file, error>>

\* MainWindow.update_status: the main thread handles the next queued message
update_status ==
    /\ handled < Len(progress)
    /\ handled' = handled + 1
    /\ UNCHANGED <<inputs, normalizer, window,
                   fonts, probe_t, scroll_pos, zoom_scale, pc, i,
                   clip_duration, transition_duration, current_start,
                   final_clips, final_video, progress, encoder_calls,
                   out_file, error, signals>>

Next ==
    \/ ReturnNoImages
    \/ Prepare
    \/ NormalizeFails
    \/ ProcessImage
    \/ Compose
    \/ SkipAudio
    \/ AttachAudio
    \/ AudioDecodeFails
    \/ AnnounceWrite
    \/ WriteVideo
    \/ EmitFinished
    \/ EmitError

Spec == Init /\ [][Next]_vars

\* the render together with the main thread that handles its messages
InitGui ==
    /\ WindowRendering
    /\ NormalizerIdle
    /\ image_paths \in ImageLists
    /\ duration \in 1..MaxDuration
    /\ transition_effect = "crossfade"
    /\ audio_path \in {a \in AudioInputs : a.kind # "missing" /\ a.dur <= 1}
    /\ text_glyphs = 0
    /\ out_dir_exists \in BOOLEAN
    /\ resolution = <<DefaultWidth, DefaultHeight>>
    /\ font_size = DefaultFontSize
    /\ bottom_margin = DefaultBottomMargin
    /\ zoom_factor = DefaultZoom
    /\ RenderStart
    /\ FontsIdle

NextGui ==
    \/ Next
    \/ update_status

SpecGui == InitGui /\ [][NextGui]_vars

\* two renders resolving their caption fonts in one process
InitFonts ==
    /\ WindowRendering
    /\ NormalizerIdle
    /\ image_paths = <<"ok">>
    /\ duration = 1
    /\ transition_effect = "crossfade"
    /\ audio_path = [kind |-> "none", dur |-> 0]
    /\ text_glyphs = 1
    /\ out_dir_exists = TRUE
    /\ resolution = <<DefaultWidth, DefaultHeight>>
    /\ font_size = DefaultFontSize
    /\ bottom_margin = DefaultBottomMargin
    /\ zoom_factor = DefaultZoom
    /\ RenderStart
    /\ font_path \in [Renders -> FontRefs]
    /\ cwd_fonts \in [1..Len(FONT_URLS) -> {"absent", "complete", "corrupt"}]
    /\ platform \in Platforms
    /\ sys_fonts \in [1..1 -> SysFontStates]
    /\ font_pc = [r \in Renders |-> "explicit"]
    /\ font_k = [r \in Renders |-> 1]
    /\ font = [r \in Renders |-> "none"]
    /\ font_writers = [k \in 1..Len(FONT_URLS) |-> {}]
    /\ font_readers = [k \in 1..Len(FONT_URLS) |-> {}]

NextFonts ==
    \E r \in Renders :
        \/ FontExplicit(r)
        \/ FontLocal(r)
        \/ FontDownloadBegin(r)
        \/ FontDownloadEnd(r)
        \/ FontSystem(r)

SpecFonts == InitFonts /\ [][NextFonts]_vars

\* the caption position function over its inputs
Resolutions == {<<1000, 1000>>, <<640, 480>>, <<100, 100>>}

FontSizes == {10, 40}

BottomMargins == {0, 50}

ZoomFactors == {[n |-> 4, d |-> 5], RInt(1), DefaultZoom, RInt(2), RInt(5)}

InitScroll ==
    /\ WindowRendering
    /\ NormalizerIdle
    /\ image_paths = <<"ok">>
    /\ duration \in 0..MaxDuration
    /\ transition_effect = "crossfade"
    /\ audio_path = [kind |-> "none", dur |-> 0]
    /\ text_glyphs \in 1..MaxGlyphs
    /\ out_dir_exists = TRUE
    /\ resolution \in Resolutions
    /\ font_size \in FontSizes
    /\ bottom_margin \in BottomMargins
    /\ zoom_factor = DefaultZoom
    /\ pc = "caption"
    /\ i = 0
    /\ clip_duration = RInt(0)
    /\ transition_duration = RInt(0)
    /\ current_start = RInt(0)
    /\ final_clips = <<>>
    /\ final_video = NoVideo
    /\ progress = <<>>
    /\ encoder_calls = 0
    /\ out_file = "absent"
    /\ error = "none"
    /\ signals = <<>>
    /\ handled = 0
    /\ probe_t = RInt(0)
    /\ scroll_pos = <<0, 0>>
    /\ zoom_scale = RInt(1)
    /\ FontsIdle

SpecScroll == InitScroll /\ [][EvalScroll]_vars

\* the zoom scale function over its inputs
InitZoom ==
    /\ WindowRendering
    /\ NormalizerIdle
    /\ image_paths \in {l \in ImageLists :
                           Len(l) > 0 /\ \A k \in 1..Len(l) : l[k] = "ok"}
    /\ duration \in 1..MaxDuration
    /\ transition_effect = "crossfade"
    /\ audio_path = [kind |-> "none", dur |-> 0]
    /\ text_glyphs = 0
    /\ out_dir_exists = TRUE
    /\ resolution = <<DefaultWidth, DefaultHeight>>
    /\ font_size = DefaultFontSize
    /\ bottom_margin = DefaultBottomMargin
    /\ zoom_factor \in ZoomFactors
    /\ pc = "segment"
    /\ i = 0
    /\ clip_duration = ClipDuration(num_images, RInt(duration),
                                    RInt(NominalTransition))
    /\ transition_duration = ClampTransition(RInt(NominalTransition),
                                             clip_duration)
    /\ current_start = RInt(0)
    /\ final_clips = <<>>
    /\ final_video = NoVideo
    /\ progress = <<>>
    /\ encoder_calls = 0
    /\ out_file = "absent"
    /\ error = "none"
    /\ signals = <<>>
    /\ handled = 0
    /\ probe_t = RInt(0)
    /\ scroll_pos = <<0, 0>>
    /\ zoom_scale = RInt(1)
    /\ FontsIdle

SpecZoom == InitZoom /\ [][EvalZoom]_vars

\* the main window from its construction: check_existing_audio has set
\* generated_audio_path if generated_audio.mp3 was there, no worker runs
InitWindow ==
    /\ NormalizerIdle
    /\ FontsIdle
    /\ image_paths \in {<<"ok">>, <<"bad">>}
    /\ duration = 1
    /\ transition_effect = "crossfade"
    /\ audio_path = [kind |-> "none", dur |-> 0]
    /\ text_glyphs = 1
    /\ out_dir_exists = TRUE
    /\ resolution = <<DefaultWidth, DefaultHeight>>
    /\ font_size = DefaultFontSize
    /\ bottom_margin = DefaultBottomMargin
    /\ zoom_factor = DefaultZoom
    /\ pc = "idle"
    /\ RenderFresh
    /\ btn_generate = TRUE
    /\ btn_gen_audio = TRUE
    /\ audio_file \in {"absent", "complete"}
    /\ generated_audio_path \in
         IF audio_file = "complete" THEN {"none", "generated_audio.mp3"}
         ELSE {"none"}
    /\ audio_pc = "idle"
    /\ workers = 0
    /\ signals_handled = 0

NextWindow ==
    \/ generate_video
    \/ Prepare
    \/ NormalizeFails
    \/ ProcessImage
    \/ Compose
    \/ SkipAudio
    \/ AttachAudio
    \/ AudioDecodeFails
    \/ AnnounceWrite
    \/ WriteVideo
    \/ EmitFinished
    \/ EmitError
    \/ update_status
    \/ on_finished
    \/ on_error
    \/ generate_audio
    \/ AudioRequest
    \/ AudioWrite
    \/ on_audio_finished
    \/ on_audio_error

SpecWindow == InitWindow /\ [][NextWindow]_vars

\* the normalizer over source and target sizes
SourceSides == {1, 50, 100, 480, 640, 1000}

InitNormalize ==
    /\ WindowRendering
    /\ image_paths = <<"ok">>
    /\ duration = 1
    /\ transition_effect = "crossfade"
    /\ audio_path = [kind |-> "none", dur |-> 0]
    /\ text_glyphs = 0
    /\ out_dir_exists = TRUE
    /\ resolution \in Resolutions
    /\ font_size = DefaultFontSize
    /\ bottom_margin = DefaultBottomMargin
    /\ zoom_factor = DefaultZoom
    /\ pc = "open"
    /\ RenderFresh
    /\ FontsIdle
    /\ orig_size \in SourceSides \X SourceSides
    /\ new_img = NoBuffer

SpecNormalize == InitNormalize /\ [][Normalize]_vars

\* the worker thread is scheduled until run() ends; nothing is assumed of the
\* main thread, which may never handle a message
SpecGuiFair == SpecGui /\ WF_vars(Next)

\* ================================================================ claims
\* the image clips built so far, in image order
Segments == SubSeq(final_clips, 2, Len(final_clips))


LoopDone == num_images > 0 /\ Len(final_clips) = num_images + 1

AllDecodable == \A k \in 1..num_images : image_paths[k] = "ok"

\* C1: for every N >= 1 and D > 0 the last segment of the schedule ends
\* exactly at D (N*S - (N-1)*T = D).
C1_ScheduleEndsAtDuration ==
    LoopDone =>
        /\ ClipEnd(final_clips[num_images + 1]) = RInt(duration)
        /\ RSub(RMulInt(clip_duration, num_images),
                RMulInt(transition_duration, num_images - 1))
             = RInt(duration)

\* C2: the transition duration of every seam is min(1.0, S/2): S/2 whenever
\* S < 2, and never more than half of either adjacent segment's duration.
C2_TransitionClamped ==
    pc # "run" /\ num_images > 0 =>
        LET half == RDivInt(clip_duration, 2)
        IN  /\ transition_duration = RMin(RInt(NominalTransition), half)
            /\ RLess(clip_duration, RInt(2)) => transition_duration = half
            /\ \A k \in 2..Len(Segments) :
                 LET seam == RSub(ClipEnd(Segments[k - 1]), Segments[k].start)
                 IN  /\ seam = transition_duration
                     /\ Segments[k].effect # "none"
                          => Segments[k].effect_dur = transition_duration
                     /\ RLeq(RMulInt(seam, 2), Segments[k - 1].duration)
                     /\ RLeq(RMulInt(seam, 2), Segments[k].duration)

C2_Witness ==
    /\ Len(Segments) >= 2
    /\ RLess(clip_duration, RInt(2))
    /\ Segments[2].effect = "CrossFadeIn"
    /\ Segments[2].effect_dur = RDivInt(clip_duration, 2)

\* C3: segment 0 starts at 0 without a transition effect; segment i >= 1
\* starts at start_{i-1} + S - T, so starts never decrease and consecutive
\* segments overlap by exactly T.
C3_SegmentStarts ==
    /\ Len(Segments) >= 1 =>
         /\ Segments[1].start = RInt(0)
         /\ Segments[1].effect = "none"
    /\ \A k \in 2..Len(Segments) :
         /\ Segments[k].start =
              RSub(RAdd(Segments[k - 1].start, clip_duration),
                   transition_duration)
         /\ RLeq(Segments[k - 1].start, Segments[k].start)
         /\ RSub(ClipEnd(Segments[k - 1]), Segments[k].start)
              = transition_duration

C3_Witness ==
    /\ pc = "stopped"
    /\ signals = <<"finished">>
    /\ Len(Segments) >= 3
    /\ RLess(RInt(0), transition_duration)
    /\ RLess(Segments[2].start, Segments[3].start)

\* C4: with exactly one image, for every D and every transition mode, the
\* single segment starts at 0, lasts exactly D and carries only the zoom.
C4_SingleImage ==
    num_images = 1 /\ Len(Segments) >= 1 =>
        /\ Len(Segments) = 1
        /\ Segments[1].start = RInt(0)
        /\ Segments[1].duration = RInt(duration)
        /\ Segments[1].effect = "none"
        /\ Segments[1].zoom

C4_Witness ==
    /\ num_images = 1
    /\ transition_effect = "slide_left"
    /\ duration > 1
    /\ pc = "stopped"
    /\ signals = <<"finished">>
    /\ Len(Segments) = 1

\* C5: if any image of the list fails to normalize, the render aborts with
\* that error: no clip is built for or after the bad image, the encoder is
\* never invoked, no output file is created and "Done." is never emitted.
C5_BadImageAborts ==
    \A b \in 1..num_images :
        image_paths[b] = "bad" =>
            /\ Len(Segments) < b
            /\ pc \notin {"audio", "write", "returned"}
            /\ ~final_video.built
            /\ encoder_calls = 0
            /\ out_file = "absent"
            /\ "Done." \notin SeqRange(progress)
            /\ "finished" \notin SeqRange(signals)
            /\ pc = "stopped" =>
                 error = "DecodeError" /\ signals = <<"error_occurred">>

C5_Witness ==
    /\ num_images = 3
    /\ image_paths[1] = "ok"
    /\ image_paths[2] = "bad"
    /\ Len(Segments) = 1
    /\ pc = "stopped"
    /\ error = "DecodeError"

\* C6: a render with an empty image list fails with an input error reported
\* to the caller as a failure, before any processing; it is never reported as
\* a successful completion.
C6_EmptyListIsAFailure ==
    num_images = 0 =>
        /\ Len(final_clips) = 0
        /\ encoder_calls = 0
        /\ pc # "returned"
        /\ "finished" \notin SeqRange(signals)
        /\ pc = "stopped" => signals = <<"error_occurred">>

\* C7: a render whose output directory does not exist fails before any
\* processing begins: before the first image is normalized and before the
\* "Processing" message.
C7_MissingDirectoryFailsFast ==
    ~out_dir_exists /\ AllDecodable /\ error # "none" =>
        /\ "Processing" \notin SeqRange(progress)
        /\ Len(Segments) = 0

\* C8: on a failed render no partially written file is at the output path:
\* the encoder produced a complete file or there is none.
C8_NoPartialOutput ==
    error # "none" => out_file # "partial"

\* C9: an attached audio track lasts at most D: a longer track is cut to
\* exactly D, a track of at most D is attached unchanged.
C9_AudioWithinDuration ==
    final_video.audio.present =>
        /\ audio_path.kind = "ok"
        /\ RLeq(final_video.audio.dur, RInt(duration))
        /\ audio_path.dur > duration
             => final_video.audio.dur = RInt(duration)
        /\ audio_path.dur <= duration
             => final_video.audio.dur = RInt(audio_path.dur)

C9_Witness ==
    /\ final_video.audio.present
    /\ audio_path.dur > duration
    /\ final_video.audio.dur = RInt(duration)
    /\ out_file = "complete"

\* C10: the audio step never aborts the render: it always hands over to the
\* encoding step; without a file at audio_path nothing is attached, and a file
\* that cannot be decoded leaves the video silent with a warning delivered to
\* the progress sink.
C10_AudioNeverAborts ==
    [][pc = "audio" =>
         /\ pc' = "write"
         /\ error' = "none"
         /\ audio_path.kind \in {"none", "missing"} =>
              ~final_video'.audio.present /\ progress' = progress
         /\ audio_path.kind = "undecodable" =>
              /\ ~final_video'.audio.present
              /\ progress'[Len(progress')] = "Error adding audio"]_vars

C10_Witness ==
    /\ audio_path.kind = "undecodable"
    /\ "Error adding audio" \in SeqRange(progress)
    /\ ~final_video.audio.present
    /\ progress[Len(progress)] = "Done."
    /\ out_file = "complete"
    /\ signals = <<"finished">>

\* the position of a message in the progress sink
Pos(m) == CHOOSE k \in 1..Len(progress) : progress[k] = m

Delivered(m) == m \in SeqRange(progress)

\* C11: with a non-empty list the sink receives "Processing" first, before
\* any image is normalized, "Writing video" after all images are normalized
\* and before the encoder starts, and "Done." last and only after the encoder
\* succeeded; a failed render never delivers "Done.".
C11_ProgressOrder ==
    num_images > 0 =>
        /\ pc = "run" => progress = <<>> /\ Len(final_clips) = 0
        /\ pc # "run" => progress[1] = "Processing"
        /\ \A j, k \in 1..Len(progress) : progress[j] = progress[k] => j = k
        /\ Delivered("Writing video") =>
             /\ Len(Segments) = num_images
             /\ final_video.built
             /\ Pos("Processing") < Pos("Writing video")
        /\ encoder_calls > 0 => Delivered("Writing video")
        /\ pc = "encode" =>
             progress[Len(progress)] = "Writing video" /\ encoder_calls = 0
        /\ Delivered("Done.") =>
             /\ Pos("Done.") = Len(progress)
             /\ Pos("Writing video") < Pos("Done.")
             /\ encoder_calls = 1
             /\ out_file = "complete"
             /\ error = "none"
        /\ error # "none" => ~Delivered("Done.")

C11_Witness ==
    /\ num_images >= 2
    /\ pc = "stopped"
    /\ progress = <<"Processing", "Adding audio", "Writing video", "Done.">>

C13_NoSharedFile ==
    \A k \in 1..Len(FONT_URLS) : \A r \in font_writers[k] :
        (font_writers[k] \cup font_readers[k]) \subseteq {r}

FiveTransitions ==
    {"crossfade", "slide_left", "slide_right", "slide_top", "slide_bottom"}

\* C14: with one of the five fixed modes every seam of the render uses that
\* type; with mode "random" every seam's type is one of the five, picked per
\* seam, so two seams of one render may differ.
C14_TransitionPerSeam ==
    \A k \in 2..Len(Segments) :
        /\ transition_effect \in FiveTransitions
             => Segments[k].trans_type = transition_effect
        /\ transition_effect = "random"
             => Segments[k].trans_type \in FiveTransitions

C14_Witness ==
    /\ transition_effect = "random"
    /\ Len(Segments) >= 3
    /\ Segments[2].trans_type = "slide_top"
    /\ Segments[3].trans_type = "crossfade"
    /\ pc = "stopped"

\* C15: crossfade fades in, slide_left slides in from the right edge,
\* slide_right from the left, slide_top from the bottom, slide_bottom from the
\* top; the effect lasts T and is put on the incoming segment only: the first
\* segment has none and a clip already placed is never changed.
C15_EntranceEffects ==
    /\ [](\A k \in 1..Len(Segments) :
            LET c == Segments[k]
            IN  /\ k = 1 => c.effect = "none"
                /\ c.effect # "none" => c.effect_dur = transition_duration
                /\ c.trans_type = "crossfade" => c.effect = "CrossFadeIn"
                /\ c.trans_type = "slide_left" => c.effect = "SlideIn_right"
                /\ c.trans_type = "slide_right" => c.effect = "SlideIn_left"
                /\ c.trans_type = "slide_top" => c.effect = "SlideIn_bottom"
                /\ c.trans_type = "slide_bottom" => c.effect = "SlideIn_top")
    /\ [][\A k \in 1..Len(final_clips) :
            Len(final_clips') >= k /\ final_clips'[k] = final_clips[k]]_vars

C15_Witness ==
    /\ Len(Segments) >= 3
    /\ Segments[2].effect = "SlideIn_right"
    /\ Segments[2].trans_type = "slide_left"
    /\ Segments[3].effect = "SlideIn_bottom"
    /\ RLess(RInt(0), Segments[3].effect_dur)
    /\ Segments[1].effect = "none"

\* C16: a caption layer exists only if the text renders with a non-zero
\* width: for an empty text, or when rendering the text fails, there is no
\* caption layer and the composition is exactly the image timeline.
C16_CaptionOnlyIfRendered ==
    final_video.built =>
        /\ final_video.caption =>
             text_glyphs * font_size > 0 /\ ~final_video.text_raised
        /\ text_glyphs = 0 => ~final_video.caption
        /\ final_video.text_raised => ~final_video.caption
        /\ ~final_video.caption => final_video.layers = final_clips
        /\ \A k \in 1..Len(final_video.layers) :
             final_video.layers[k].kind = "text" => final_video.caption

C16_Witness ==
    /\ text_glyphs > 0
    /\ final_video.text_raised
    /\ ~final_video.caption
    /\ Len(final_video.layers) = 3
    /\ out_file = "complete"

\* C17: for D > 0 the caption is at (output_width, fixed_y) at t = 0 and at
\* (-text_width, fixed_y) at t = D, with fixed_y = output_height -
\* caption_height - bottom_margin at every t in [0, D]; for D = 0 it is at
\* (0, 0) at every t.
C17_ScrollEndpoints ==
    pc = "positioned" =>
        LET text_width == text_glyphs * font_size
            caption_height == (font_size * 3) \div 2
            fixed_y == resolution[2] - caption_height - bottom_margin
        IN  /\ duration > 0 => scroll_pos[2] = fixed_y
            /\ (duration > 0 /\ probe_t = RInt(0)) =>
                   scroll_pos[1] = resolution[1]
            /\ (duration > 0 /\ probe_t = RInt(duration)) =>
                   scroll_pos[1] = -text_width
            /\ duration = 0 => scroll_pos = <<0, 0>>

C17_Witness ==
    /\ pc = "positioned"
    /\ duration > 1
    /\ probe_t = RInt(duration)
    /\ scroll_pos[1] = -(text_glyphs * font_size)
    /\ scroll_pos[2] < 0

\* C18: at t = D the caption's x is minus the width W of the buffer the text
\* renderer produced, so the whole band is off the left edge: x + W <= 0.
C18_BandOffFrameAtEnd ==
    (pc = "positioned" /\ duration > 0 /\ probe_t = RInt(duration)) =>
        LET W == create_text_image(text_glyphs, font_size, FALSE).img_width
        IN  /\ scroll_pos[1] = -W
            /\ scroll_pos[1] + W <= 0

\* C19: bottom to top the composition is the background fill over [0, D],
\* the segments in image order, and the caption layer over [0, D] when there
\* is one; its length is exactly D.
C19_LayerOrder ==
    final_video.built =>
        LET L == final_video.layers
        IN  /\ Len(L) = num_images + 1 + (IF final_video.caption THEN 1 ELSE 0)
            /\ L[1].kind = "color"
            /\ L[1].start = RInt(0)
            /\ L[1].duration = RInt(duration)
            /\ \A k \in 1..num_images :
                 L[k + 1].kind = "image" /\ L[k + 1].index = k - 1
            /\ final_video.caption =>
                 /\ L[Len(L)].kind = "text"
                 /\ L[Len(L)].start = RInt(0)
                 /\ L[Len(L)].duration = RInt(duration)
            /\ final_video.duration = RInt(duration)

C19_Witness ==
    /\ final_video.caption
    /\ num_images = 3
    /\ Len(final_video.layers) = 5
    /\ final_video.layers[5].kind = "text"
    /\ out_file = "complete"

\* C20: for a segment of duration d > 0 and zoom_factor >= 1 the scale is
\* 1 + (zoom_factor - 1) * t / d: 1 at t = 0, zoom_factor at t = d, and
\* non-decreasing in t; for zoom_factor < 1 the scale is 1 at every t.
C20_ZoomScale ==
    /\ [](pc = "zoomed" =>
            /\ RLess(RInt(0), clip_duration)
            /\ RLeq(RInt(1), zoom_factor) =>
                   /\ zoom_scale =
                        RAdd(RInt(1),
                             Rat((zoom_factor.n - zoom_factor.d) * probe_t.n
                                    * clip_duration.d,
                                 zoom_factor.d * probe_t.d * clip_duration.n))
                   /\ probe_t = RInt(0) => zoom_scale = RInt(1)
                   /\ probe_t = clip_duration => zoom_scale = zoom_factor
            /\ RLess(zoom_factor, RInt(1)) => zoom_scale = RInt(1))
    /\ [][(pc = "zoomed" /\ pc' = "zoomed" /\ RLeq(probe_t, probe_t')) =>
             RLeq(zoom_scale, zoom_scale')]_vars

C20_Witness ==
    /\ pc = "zoomed"
    /\ num_images > 1
    /\ zoom_factor = DefaultZoom
    /\ probe_t = clip_duration
    /\ zoom_scale = DefaultZoom

\* C21: for every positive source and target size the normalizer returns a
\* buffer of exactly the target size in which the scaled image fits: scaled
\* width and height are at most the target's and both paste offsets are at
\* least 0; a source of the target's size is scaled to the target's size with
\* both offsets 0.
C21_NormalizedFits ==
    pc \in {"normalized", "resize_raised"} =>
        /\ ~new_img.raised
        /\ new_img.size = resolution
        /\ new_img.new_w <= resolution[1]
        /\ new_img.new_h <= resolution[2]
        /\ new_img.paste_x >= 0
        /\ new_img.paste_y >= 0
        /\ orig_size = resolution =>
               /\ <<new_img.new_w, new_img.new_h>> = resolution
               /\ new_img.paste_x = 0
               /\ new_img.paste_y = 0

\* C22: font resolution never fails: for every explicit reference, local
\* font files, download outcome and platform, get_font never raises and what
\* it returns is a font, the built-in default as the last resort.
C22_FontNeverRaises ==
    \A r \in Renders :
        /\ font_pc[r] # "raised"
        /\ font_pc[r] = "done" => font[r] # "none"

C22_Witness ==
    \E r \in Renders :
        /\ font_pc[r] = "done"
        /\ font[r] = "default"
        /\ font_path[r] = "unloadable"
        /\ platform = "Windows"
        /\ sys_fonts[1] = "unloadable"

\* C23: the candidates are tried in order, each until one loads: one that
\* exists but fails to load is passed over, so the built-in fallback is
\* returned only when no other candidate can be loaded.
C23_FallbackIsLastResort ==
    \A r \in Renders :
        (font_pc[r] = "done" /\ font[r] = "default") =>
            /\ font_path[r] # "ok"
            /\ ~(/\ platform \in {"Linux", "Windows", "Darwin"}
                 /\ \E k \in DOMAIN sys_fonts : sys_fonts[k] = "ok")

\* C24: every run of VideoWorker emits exactly one terminal signal, after its
\* last progress message: error_occurred if and only if generate_slideshow
\* raised, finished otherwise; never both, and nothing is retried after an
\* error.
C24_OneTerminalSignal ==
    /\ [](/\ Len(signals) <= 1
          /\ pc # "stopped" => signals = <<>>
          /\ pc = "stopped" =>
                /\ Len(signals) = 1
                /\ signals[1] = "error_occurred" <=> error # "none"
                /\ signals[1] = "finished" <=> error = "none"
          /\ encoder_calls <= 1)
    /\ [][/\ signals # <<>> => progress' = progress /\ signals' = signals
          /\ error # "none" =>
                /\ error' = error
                /\ encoder_calls' = encoder_calls
                /\ final_clips' = final_clips]_vars

C24_Witness ==
    /\ pc = "stopped"
    /\ signals = <<"error_occurred">>
    /\ error = "EncodeError"
    /\ encoder_calls = 1
    /\ Len(progress) = 2

\* C25: for every N >= 1 and D > 0 each segment starts strictly before D, so
\* every image is on screen for a positive time in the composition cut to D.
C25_EverySegmentVisible ==
    \A k \in 1..Len(Segments) : RLess(Segments[k].start, RInt(duration))

\* C26: for every value of transition_effect, also one outside the six
\* recognised modes, every segment after the first gets exactly one of the
\* five entrance effects.
C26_EverySeamHasAnEffect ==
    \A k \in 2..Len(Segments) :
        /\ Segments[k].effect \in
              {"CrossFadeIn", "SlideIn_right", "SlideIn_left",
               "SlideIn_bottom", "SlideIn_top"}
        /\ Segments[k].trans_type \in FiveTransitions

\* C27: in the GUI at most one VideoWorker is running, and the generate
\* button is enabled exactly when no render is running: disabled when a
\* render starts, enabled again once its finished or error_occurred signal
\* has been handled.
C27_OneRenderAtATime ==
    /\ workers <= 1
    /\ btn_generate <=> workers = 0
    /\ workers = 0 <=>
          (pc = "idle" \/ (pc = "stopped" /\ signals_handled = Len(signals)))

C27_Witness ==
    /\ btn_generate
    /\ workers = 0
    /\ pc = "stopped"
    /\ signals = <<"error_occurred">>
    /\ signals_handled = 1
    /\ audio_pc = "writing"

\* C28: generated_audio.mp3 is never being written by a running AudioWorker
\* while a running VideoWorker uses that file as its audio.
C28_AudioFileExclusive ==
    ~(audio_pc = "writing" /\ workers > 0 /\ RenderUsesAudio)

====
